---- MODULE Spec2Model ----
(***************************************************************************)
(* Model of src/providers/comments/thread.ts of VSCode-Gerrit:             *)
(*   - GerritCommentThread: the side table linking the editor's comment    *)
(*     thread handles to thread records through an id encoded in the       *)
(*     handle's contextValue;                                              *)
(*   - parseGerritFile / getGitReviewFile / getGitReviewFileCached: the    *)
(*     .gitreview reader and its module cache.                             *)
(* Strings are sequences of tokens. A token is a piece of text that holds  *)
(* no separator character; the separators '|', ',', '=', ' ' and '\n' are  *)
(* tokens of their own, so split, trim and includes act on tokens exactly  *)
(* as the JavaScript operations act on the characters.                     *)
(***************************************************************************)
EXTENDS Integers, Sequences, FiniteSets, TLC

VARIABLES
    \* GerritCommentThread statics and the objects they reach
    lastThreadId, threadMap, records, handles, unresolved, managers, pending, lastFrom, held,
    \* .gitreview reader
    gitReviewFile, fs, calls, lastCached,
    \* parseGerritFile applied to one content
    fileContent, parsed

threadVars == <<lastThreadId, threadMap, records, handles, unresolved, managers, pending, lastFrom,
                held>>
configVars == <<gitReviewFile, fs, calls, lastCached>>
parseVars == <<fileContent, parsed>>
vars == <<threadVars, configVars, parseVars>>

(***************************************************************************)
(* String operations                                                       *)
(***************************************************************************)

\* String.prototype.includes for a one-token needle
Includes(s, t) ==
    \E i \in 1..Len(s) : s[i] = t

\* position of the first occurrence of token t in s (0 when absent)
IndexOf(s, t) ==
    IF Includes(s, t) THEN CHOOSE i \in 1..Len(s) : s[i] = t /\ \A j \in 1..(i-1) : s[j] # t
    ELSE 0

\* String.prototype.split(sep): every piece between separators, empty ones kept
RECURSIVE Split(_, _)
Split(s, sep) ==
    IF ~Includes(s, sep) THEN <<s>>
    ELSE LET i == IndexOf(s, sep)
         IN  <<SubSeq(s, 1, i - 1)>> \o Split(SubSeq(s, i + 1, Len(s)), sep)

\* the tokens String.prototype.trim strips
WhiteSpace == {" ", "\t", "\r"}

RECURSIVE TrimStart(_)
TrimStart(s) ==
    IF s # <<>> /\ Head(s) \in WhiteSpace THEN TrimStart(Tail(s)) ELSE s

RECURSIVE TrimEnd(_)
TrimEnd(s) ==
    IF s # <<>> /\ s[Len(s)] \in WhiteSpace THEN TrimEnd(SubSeq(s, 1, Len(s) - 1)) ELSE s

Trim(s) ==
    TrimEnd(TrimStart(s))

\* Array.prototype.join
RECURSIVE Join(_, _)
Join(parts, sep) ==
    IF parts = <<>> THEN <<>>
    ELSE IF Len(parts) = 1 THEN parts[1]
    ELSE parts[1] \o sep \o Join(Tail(parts), sep)

(***************************************************************************)
(* parseGerritFile                                                         *)
(***************************************************************************)

\* "no value": null / undefined
Null == [found |-> FALSE]

\* a parsed GitReviewFile: fields maps each key to its value
Found(fields) == [found |-> TRUE, fields |-> fields]

\* const file: Partial<GitReviewFile> = {}
EmptyFile == [k \in {} |-> <<>>]

\* file[typedKey] = value
AssignField(file, key, value) ==
    [k \in (DOMAIN file) \cup {key} |-> IF k = key THEN value ELSE file[k]]

\* const [key, value] = line.split('=')
LineKey(line) ==
    Split(line, "=")[1]

LineValue(line) ==
    Split(line, "=")[2]

\* the body of the for loop over the lines
RECURSIVE ParseLines(_, _)
ParseLines(lines, file) ==
    IF lines = <<>> THEN file
    ELSE LET line == Head(lines)
         IN  IF ~Includes(line, "=") THEN ParseLines(Tail(lines), file)
             ELSE ParseLines(Tail(lines), AssignField(file, LineKey(line), Trim(LineValue(line))))

\* !file.host : the key is missing or its value is the empty string
Falsy(file, key) ==
    key \notin DOMAIN file \/ file[key] = <<>>

HasHeader(content) ==
    Includes(content, "[gerrit]")

\* the record the loop leaves in `file` (only built when the header is there)
ParsedFields(content) ==
    ParseLines(Split(content, "\n"), EmptyFile)

\* a parser that only requires the host
RequiredMissingHostOnly(file) ==
    Falsy(file, <<"host">>)

RequiredMissing(file) ==
    Falsy(file, <<"host">>) \/ Falsy(file, <<"project">>)

parseGerritFile(content) ==
    IF ~HasHeader(content) THEN Null
    ELSE IF RequiredMissing(ParsedFields(content)) THEN Null
    ELSE Found(ParsedFields(content))

\* whether the call logs the "did not contain a host and project" warning
parseLogsWarning(content) ==
    HasHeader(content) /\ RequiredMissing(ParsedFields(content))

(***************************************************************************)
(* Inputs of the parser: files of up to MaxLines lines                      *)
(***************************************************************************)
MaxLines == 4

SampleLines ==
    { <<"[gerrit]">>,
      <<"host", "=", "a">>,
      <<"host", "=", "b", " ">>,
      <<"host", "=">>,
      <<"host", " ", "=", " ", "a">>,
      <<"project", "=", "a">>,
      <<"project", "=", "a", "=", "b">>,
      <<"port", "=", "b">>,
      <<"a">>,
      <<>> }

RECURSIVE LineSeqs(_)
LineSeqs(n) ==
    IF n = 0 THEN {<<>>}
    ELSE LET shorter == LineSeqs(n - 1)
         IN  shorter \cup { Append(ls, l) : ls \in {x \in shorter : Len(x) = n - 1}, l \in SampleLines }

SampleContents ==
    { Join(ls, <<"\n">>) : ls \in LineSeqs(MaxLines) }

(***************************************************************************)
(* parseGerritFile applied to one content (specification SpecParse)        *)
(***************************************************************************)

\* parsed: whether the call was made, the record left in `file`, the value
\* returned and whether the warning was logged
NotParsed == [called |-> FALSE, file |-> EmptyFile, result |-> Null, warned |-> FALSE]

ParseInit ==
    /\ fileContent \in SampleContents
    /\ parsed = NotParsed

ParseQuiet ==
    /\ fileContent = <<>>
    /\ parsed = NotParsed

\* one call parseGerritFile(fileContent)
Parse ==
    /\ ~parsed.called
    /\ parsed' = [called |-> TRUE,
                  file |-> IF HasHeader(fileContent) THEN ParsedFields(fileContent) ELSE EmptyFile,
                  result |-> parseGerritFile(fileContent),
                  warned |-> parseLogsWarning(fileContent)]
    /\ UNCHANGED <<fileContent, threadVars, configVars>>

(***************************************************************************)
(* getGitReviewFile / getGitReviewFileCached (specification SpecConfig)    *)
(***************************************************************************)
NumRoots == 2

\* workspace.workspaceFolders, in their order
Roots == 1..NumRoots

Callers == {"c1", "c2"}

Line(key, value) == <<key, "=", value>>

ValidA == Join(<<<<"[gerrit]">>, Line("host", "a"), Line("project", "a")>>, <<"\n">>)
ValidB == Join(<<<<"[gerrit]">>, Line("host", "b"), Line("project", "b")>>, <<"\n">>)
NoProject == Join(<<<<"[gerrit]">>, Line("host", "a")>>, <<"\n">>)

\* what workspace.fs.readFile finds at <root>/.gitreview
Unreadable == [readable |-> FALSE, content |-> <<>>]
Readable(content) == [readable |-> TRUE, content |-> content]
FileStates == {Unreadable} \cup { Readable(c) : c \in {<<>>, NoProject, ValidA, ValidB} }

\* what an observer of the read finds in the file: the record it declares, if any
FileAt(file) ==
    IF file.readable THEN parseGerritFile(file.content) ELSE Null

\* the immediately invoked async function: try { read } catch (e) { return null }
\* (a null and an empty content are both falsy for `if (!fileContent)`)
ReadFileContent(file) ==
    IF file.readable THEN [threw |-> FALSE, content |-> file.content]
    ELSE [threw |-> FALSE, content |-> <<>>]

\* a loop that gives up at the first root without a usable file
ScanRootStopsAtFailure(file) ==
    LET read == ReadFileContent(file)
    IN  IF read.content = <<>> THEN [threw |-> FALSE, returns |-> TRUE, value |-> Null]
        ELSE [threw |-> FALSE, returns |-> parseGerritFile(read.content).found,
              value |-> parseGerritFile(read.content)]

\* one iteration of the for loop: what the iteration returns, if it returns
ScanRoot(file) ==
    LET read == ReadFileContent(file)
    IN  IF read.threw THEN [threw |-> TRUE, returns |-> FALSE, value |-> Null]
        ELSE IF read.content = <<>> THEN [threw |-> FALSE, returns |-> FALSE, value |-> Null]
        ELSE IF parseGerritFile(read.content).found
             THEN [threw |-> FALSE, returns |-> TRUE, value |-> parseGerritFile(read.content)]
        ELSE [threw |-> FALSE, returns |-> FALSE, value |-> Null]

\* a wrapper that returns the scan's value without keeping it
CacheNotAssigned(value) ==
    Null

\* a cache that remembers a failed lookup, as a record without fields
CacheRemembersMiss(value) ==
    IF value.found THEN value ELSE Found(EmptyFile)

\* the value getGitReviewFileCached stores on resuming from its await
CacheAssigned(value) ==
    value

IdleCall == [pc |-> "idle", kind |-> "none", idx |-> 0, log |-> <<>>, val |-> Null, threw |-> FALSE]

ConfigInit ==
    /\ gitReviewFile = Null
    /\ fs \in [Roots -> FileStates]
    /\ calls = [c \in Callers |-> IdleCall]
    /\ lastCached = Null

ConfigQuiet ==
    /\ gitReviewFile = Null
    /\ fs = [r \in Roots |-> Unreadable]
    /\ calls = [c \in Callers |-> IdleCall]
    /\ lastCached = Null

\* the state of a call that enters the for loop of getGitReviewFile
StartScan(kind) ==
    IF NumRoots = 0
    THEN [pc |-> IF kind = "cached" THEN "resolved" ELSE "done", kind |-> kind, idx |-> 0,
          log |-> <<>>, val |-> Null, threw |-> FALSE]
    ELSE [pc |-> "reading", kind |-> kind, idx |-> 1, log |-> <<>>, val |-> Null, threw |-> FALSE]

\* getGitReviewFileCached(): up to its await
CallCached(c) ==
    /\ calls[c].pc = "idle"
    /\ IF gitReviewFile.found
       THEN /\ calls' = [calls EXCEPT ![c] = [pc |-> "done", kind |-> "cached", idx |-> 0,
                                                log |-> <<>>, val |-> gitReviewFile, threw |-> FALSE]]
            /\ lastCached' = gitReviewFile
       ELSE /\ calls' = [calls EXCEPT ![c] = StartScan("cached")]
            /\ UNCHANGED lastCached
    /\ UNCHANGED <<gitReviewFile, fs, threadVars, parseVars>>

\* getGitReviewFile() called on its own: up to its first await
CallDirect(c) ==
    /\ calls[c].pc = "idle"
    /\ calls' = [calls EXCEPT ![c] = StartScan("direct")]
    /\ UNCHANGED <<gitReviewFile, fs, lastCached, threadVars, parseVars>>

\* the read of root idx settles; the loop runs on to its next await or to its return
ReadRoot(c) ==
    /\ calls[c].pc = "reading"
    /\ LET call == calls[c]
           step == ScanRoot(fs[call.idx])
           log == Append(call.log, [root |-> call.idx, file |-> FileAt(fs[call.idx])])
           settled == IF call.kind = "cached" THEN "resolved" ELSE "done"
       IN  calls' = [calls EXCEPT ![c] =
                IF step.threw THEN [call EXCEPT !.pc = settled, !.log = log, !.threw = TRUE]
                ELSE IF step.returns THEN [call EXCEPT !.pc = settled, !.log = log, !.val = step.value]
                ELSE IF call.idx < NumRoots THEN [call EXCEPT !.idx = call.idx + 1, !.log = log]
                ELSE [call EXCEPT !.pc = settled, !.log = log, !.val = Null]]
    /\ UNCHANGED <<gitReviewFile, fs, lastCached, threadVars, parseVars>>

\* getGitReviewFileCached() resumes from its await: return (gitReviewFile = <value>)
Resume(c) ==
    /\ calls[c].pc = "resolved"
    /\ calls' = [calls EXCEPT ![c].pc = "done"]
    /\ IF calls[c].threw
       THEN UNCHANGED <<gitReviewFile, lastCached>>
       ELSE /\ gitReviewFile' = CacheAssigned(calls[c].val)
            /\ lastCached' = calls[c].val
    /\ UNCHANGED <<fs, threadVars, parseVars>>

\* the caller has used the result and may call again
Finish(c) ==
    /\ calls[c].pc = "done"
    /\ calls' = [calls EXCEPT ![c] = IdleCall]
    /\ UNCHANGED <<gitReviewFile, fs, lastCached, threadVars, parseVars>>

\* the user creates, edits or removes <root>/.gitreview
ChangeFile(r, file) ==
    /\ fs[r] # file
    /\ fs' = [fs EXCEPT ![r] = file]
    /\ UNCHANGED <<gitReviewFile, calls, lastCached, threadVars, parseVars>>

(***************************************************************************)
(* GerritCommentThread                                                     *)
(*                                                                         *)
(* lastThreadId, threadMap : the two statics of the class                  *)
(* records    : the GerritCommentThread instances, in creation order       *)
(* handles    : the editor's CommentThread objects                         *)
(* unresolved : the unresolved flag of each comment object                 *)
(* managers   : the DocumentCommentManagers of the CommentManager registry *)
(* pending    : the updateComment calls suspended at their await           *)
(* lastFrom   : the value returned by from(), when the last step was from()*)
(* held       : the records from() has returned to a caller                *)
(***************************************************************************)
MaxComments == 2
MaxDisposals == 2
MaxLineThreads == 2

\* CommentThreadCollapsibleState
Collapsed == 0
Expanded == 1

Handles == {"h1", "h2"}
ManagerIds == {1, 2}

GerritUri == "gerrit:/a"
PlainUri == "file:/a"
Uris == {GerritUri, PlainUri}

\* FileProvider.tryGetFileMeta: only a uri of the review file scheme carries a meta
tryGetFileMeta(uri) ==
    IF uri = GerritUri THEN [found |-> TRUE, filePath |-> "a"] ELSE [found |-> FALSE, filePath |-> ""]

\* the comment objects the callers pass in: GerritCommentBase.id, .isDraft and
\* the start line of DocumentCommentManager.getCommentRange (0: no range)
Comments == {"k1", "k2", "k3"}
CommentIds == {"c1", "c2"}
CommentId(k) == IF k = "k2" THEN "c2" ELSE "c1"
IsDraft(k) == k = "k2"
CommentLine(k) == IF k = "k3" THEN 0 ELSE 1
Lines == {1}

RECURSIVE ListsOfLen(_, _)
ListsOfLen(n, objects) ==
    IF n = 0 THEN {<<>>}
    ELSE { Append(l, k) : l \in ListsOfLen(n - 1, objects), k \in objects }

\* the arrays of up to MaxComments of the given comment objects, none twice
CommentLists(objects) ==
    { l \in UNION { ListsOfLen(n, objects) : n \in 0..MaxComments } :
        \A i, j \in 1..Len(l) : i # j => l[i] # l[j] }

Digits == <<"0", "1", "2", "3", "4", "5", "6", "7", "8", "9">>

\* String(id) / `${id}`
RECURSIVE IdString(_)
IdString(n) ==
    IF n < 10 THEN <<Digits[n + 1]>>
    ELSE IdString(n \div 10) \o <<Digits[(n % 10) + 1]>>

\* a generator that hands out the static without incrementing it
SameThreadId(last) ==
    last

\* _generateID: the value of the static after `_lastThreadId++`
NextThreadId(last) ==
    last + 1

\* _getThreadID: null for a missing or empty contextValue, else the text before the first '|'
getThreadID(contextValue) ==
    IF contextValue = <<>> THEN [isNull |-> TRUE, id |-> <<>>]
    ELSE [isNull |-> FALSE, id |-> Split(contextValue, "|")[1]]

\* `id && _threadMap.has(id)`
IsMapped(map, contextValue) ==
    LET got == getThreadID(contextValue)
    IN  ~got.isNull /\ got.id # <<>> /\ got.id \in DOMAIN map

\* Map.prototype.set / delete
MapSet(map, key, value) ==
    [k \in (DOMAIN map) \cup {key} |-> IF k = key THEN value ELSE map[k]]

MapDelete(map, key) ==
    [k \in (DOMAIN map) \ {key} |-> map[k]]

\* a rewrite of the contextValue that drops the id
ContextValueWithoutId(threadID, contextValue) ==
    <<"|">> \o contextValue

\* _setContextValue
setContextValue(threadID, contextValue) ==
    threadID \o <<"|">> \o contextValue

\* CommentManager.getFileManagersForUri: the managers of the uri, in registry order
RECURSIVE ManagersFrom(_, _, _)
ManagersFrom(mgrs, uri, m) ==
    IF m \notin ManagerIds THEN <<>>
    ELSE (IF mgrs[m].uri = uri THEN <<m>> ELSE <<>>) \o ManagersFrom(mgrs, uri, m + 1)

getFileManagersForUri(mgrs, uri) ==
    ManagersFrom(mgrs, uri, 1)

\* the _manager getter: the managers the call reaches (none, or managers[0])
Manager(mgrs, uri) ==
    IF ~tryGetFileMeta(uri).found THEN <<>>
    ELSE IF getFileManagersForUri(mgrs, uri) = <<>> THEN <<>>
    ELSE <<getFileManagersForUri(mgrs, uri)[1]>>

\* DocumentCommentManager.registerNewThread(gthread)
registerNewThread(mgrs, m, r) ==
    [mgrs EXCEPT ![m].newThreads = Append(@, r)]

\* DocumentCommentManager.registerComments(thread, ...comments)
registerComments(mgrs, m, r, list) ==
    [mgrs EXCEPT ![m].commentThreads =
        [id \in DOMAIN @ |-> IF \E i \in 1..Len(list) : CommentId(list[i]) = id THEN r ELSE @[id]]]

\* this._manager?.registerComments(this, ...comments)
ManagerRegisterComments(mgrs, uri, r, list) ==
    IF Manager(mgrs, uri) = <<>> THEN mgrs
    ELSE registerComments(mgrs, Manager(mgrs, uri)[1], r, list)

\* DocumentCommentManager.getLineThreadCount(line)
getLineThreadCount(mgrs, m, line) ==
    mgrs[m].lineThreadCount[line]

\* the forEach over the managers of the uri: threadCount += ...
RECURSIVE SumLineThreads(_, _, _)
SumLineThreads(mgrs, ms, line) ==
    IF ms = <<>> THEN 0
    ELSE getLineThreadCount(mgrs, Head(ms), line) + SumLineThreads(mgrs, Tail(ms), line)

\* the lastComment getter applies to a non-empty list
LastComment(list) ==
    list[Len(list)]

\* the resolved getter: !(this.lastComment?.unresolved ?? false)
Resolved(list, unres) ==
    ~(IF list = <<>> THEN FALSE ELSE unres[LastComment(list)])

\* _updateContextValues: the two flags joined by ','
ContextValues(list, unres) ==
    Join(<< <<IF Resolved(list, unres) THEN "yesResolved" ELSE "noResolved">>,
            <<IF list = <<>> \/ IsDraft(LastComment(list))
              THEN "yesLastCommentDraft" ELSE "nodLastCommentDaft">> >>, <<",">>)

\* the overrideExpand closure of update
OverrideExpand(filePath, uri, list, mgrs) ==
    IF filePath = "" \/ list = <<>> THEN FALSE
    ELSE IF CommentLine(LastComment(list)) = 0 THEN FALSE
    ELSE SumLineThreads(mgrs, getFileManagersForUri(mgrs, uri), CommentLine(LastComment(list))) > 1

\* an update that recomputes the contextValue and canReply but not the label
UpdateKeepsLabel(h, rec, isInitial, unres, mgrs) ==
    [h EXCEPT
        !.contextValue = setContextValue(rec.threadID, ContextValues(h.comments, unres)),
        !.canReply = (h.comments = <<>>) \/ ~IsDraft(LastComment(h.comments)),
        !.collapsibleState =
            IF ~isInitial THEN @
            ELSE IF ~OverrideExpand(rec.filePath, h.uri, h.comments, mgrs)
                    /\ Resolved(h.comments, unres)
                 THEN Collapsed ELSE Expanded]

\* an update that recomputes the collapse state on every call
UpdateAlwaysInitial(h, rec, isInitial, unres, mgrs) ==
    [h EXCEPT
        !.contextValue = setContextValue(rec.threadID, ContextValues(h.comments, unres)),
        !.label = IF Resolved(h.comments, unres) THEN "Comment" ELSE "Comment (unresolved)",
        !.canReply = (h.comments = <<>>) \/ ~IsDraft(LastComment(h.comments)),
        !.collapsibleState =
            IF ~OverrideExpand(rec.filePath, h.uri, h.comments, mgrs)
               /\ Resolved(h.comments, unres)
            THEN Collapsed ELSE Expanded]

\* update(isInitial) on the handle h of record rec
Update(h, rec, isInitial, unres, mgrs) ==
    [h EXCEPT
        !.contextValue = setContextValue(rec.threadID, ContextValues(h.comments, unres)),
        !.label = IF Resolved(h.comments, unres) THEN "Comment" ELSE "Comment (unresolved)",
        !.canReply = (h.comments = <<>>) \/ ~IsDraft(LastComment(h.comments)),
        !.collapsibleState =
            IF ~isInitial THEN @
            ELSE IF ~OverrideExpand(rec.filePath, h.uri, h.comments, mgrs)
                    /\ Resolved(h.comments, unres)
                 THEN Collapsed ELSE Expanded]

\* this._thread.dispose()
DisposeHandle(h) ==
    [h EXCEPT !.disposed = @ + 1]

\* a setComments that never disposes the handle
NeverDispose(h) ==
    h

\* the end of setComments: dispose the handle of an empty thread
DisposeIfEmpty(h) ==
    IF h.comments = <<>> THEN DisposeHandle(h) ELSE h

\* the handle of record rec after setComments(list, isInitial)
HandleAfterSetComments(h, rec, list, isInitial, unres, mgrs) ==
    DisposeIfEmpty(Update([h EXCEPT !.comments = list], rec, isInitial, unres, mgrs))

\* pushComment's `if (collapseState)`; the optional argument is <<>> when left
\* out and <<state>> when given, and the number 0 is falsy
ApplyCollapseState(h, collapseState) ==
    IF collapseState = <<>> THEN h
    ELSE IF collapseState[1] = 0 THEN h
    ELSE [h EXCEPT !.collapsibleState = collapseState[1]]

\* a filter that drops only the first comment with the id
RECURSIVE FilterOutFirstWithId(_, _)
FilterOutFirstWithId(list, id) ==
    IF list = <<>> THEN <<>>
    ELSE IF CommentId(Head(list)) = id THEN Tail(list)
    ELSE <<Head(list)>> \o FilterOutFirstWithId(Tail(list), id)

\* the comments removeComment keeps
RECURSIVE FilterOutId(_, _)
FilterOutId(list, id) ==
    IF list = <<>> THEN <<>>
    ELSE (IF CommentId(Head(list)) = id THEN <<>> ELSE <<Head(list)>>) \o FilterOutId(Tail(list), id)

NoFrom == [thread |-> "none", result |-> 0]

\* a CommentThread as the comment controller creates it
NewHandle(uri) ==
    [uri |-> uri, contextValue |-> <<>>, label |-> "", canReply |-> TRUE,
     collapsibleState |-> Collapsed, comments |-> <<>>, disposed |-> 0]

NoManager ==
    [uri |-> "none", lineThreadCount |-> [l \in Lines |-> 0], newThreads |-> <<>>,
     commentThreads |-> [id \in CommentIds |-> 0]]

\* the state after the class is loaded, for the given documents of the handles
\* and the given flags of the comment objects
ThreadInit(uris, flags) ==
    /\ lastThreadId = 0
    /\ threadMap = <<>>
    /\ records = <<>>
    /\ handles \in { [h \in Handles |-> NewHandle(u[h])] : u \in uris }
    /\ unresolved \in flags
    /\ managers = [m \in ManagerIds |-> NoManager]
    /\ pending = {}
    /\ lastFrom = NoFrom
    /\ held = {}

ThreadQuiet ==
    ThreadInit({[h \in Handles |-> GerritUri]}, {[k \in Comments |-> FALSE]})

otherVars == <<configVars, parseVars>>

RecordIds == 1..Len(records)

\* the record is an entry of the table
InTable(r) ==
    /\ records[r].threadID \in DOMAIN threadMap
    /\ threadMap[records[r].threadID] = r

\* a caller can call the record: from() returned it and it was not disposed
Usable(r) ==
    r \in held /\ InTable(r)

\* GerritCommentThread.from(thread), with the constructor and _setThreadID; the
\* editor hands over only threads it has not disposed
From(h) ==
    /\ handles[h].disposed = 0
    /\ IF IsMapped(threadMap, handles[h].contextValue)
       THEN /\ lastFrom' = [thread |-> h, result |-> threadMap[getThreadID(handles[h].contextValue).id]]
            /\ held' = held \cup {threadMap[getThreadID(handles[h].contextValue).id]}
            /\ UNCHANGED <<lastThreadId, threadMap, records, handles, managers>>
       ELSE LET r == Len(records) + 1
                threadID == IdString(lastThreadId)
                meta == tryGetFileMeta(handles[h].uri)
                ms == getFileManagersForUri(managers, handles[h].uri)
            IN  /\ lastThreadId' = NextThreadId(lastThreadId)
                /\ handles' = [handles EXCEPT ![h].contextValue = setContextValue(threadID, <<>>)]
                /\ threadMap' = MapSet(threadMap, threadID, r)
                /\ records' = Append(records, [threadID |-> threadID, thread |-> h,
                                               filePath |-> IF meta.found THEN meta.filePath ELSE ""])
                /\ IF ms = <<>>
                   THEN /\ lastFrom' = [thread |-> h, result |-> 0]
                        /\ UNCHANGED <<managers, held>>
                   ELSE /\ managers' = registerNewThread(managers, ms[1], r)
                        /\ lastFrom' = [thread |-> h, result |-> r]
                        /\ held' = held \cup {r}
    /\ UNCHANGED <<unresolved, pending, otherVars>>

\* what setComments(list, isInitial) on record r does to the handles and the managers
SetCommentsOn(r, list, isInitial) ==
    LET rec == records[r]
        mgrs == ManagerRegisterComments(managers, handles[rec.thread].uri, r, list)
    IN  /\ (list = <<>> => handles[rec.thread].disposed < MaxDisposals)
        /\ managers' = mgrs
        /\ handles' = [handles EXCEPT ![rec.thread] =
                HandleAfterSetComments(@, rec, list, isInitial, unresolved, mgrs)]

\* record.setComments(list, isInitial)
SetComments(r, list, isInitial) ==
    /\ Usable(r)
    /\ SetCommentsOn(r, list, isInitial)
    /\ lastFrom' = NoFrom
    /\ UNCHANGED <<lastThreadId, threadMap, records, held, unresolved, pending, otherVars>>

\* record.pushComment(comment, collapseState)
PushComment(r, k, collapseState) ==
    LET rec == records[r]
        h == handles[rec.thread]
        mgrs == ManagerRegisterComments(managers, h.uri, r, <<k>>)
    IN  /\ Usable(r)
        /\ Len(h.comments) < MaxComments
        /\ \A i \in 1..Len(h.comments) : h.comments[i] # k
        /\ managers' = mgrs
        /\ handles' = [handles EXCEPT ![rec.thread] =
                ApplyCollapseState(
                    Update([h EXCEPT !.comments = Append(h.comments, k)], rec,
                           h.comments = <<>>, unresolved, mgrs),
                    collapseState)]
        /\ lastFrom' = NoFrom
        /\ UNCHANGED <<lastThreadId, threadMap, records, held, unresolved, pending, otherVars>>

\* record.updateComment(comment, updater) up to its await: the updater has run
\* on every comment of the list that has the comment's id (it may flip the flag
\* of a draft); one call is in flight at a time
UpdateCommentStart(r, k, value) ==
    LET list == handles[records[r].thread].comments
    IN  /\ Usable(r)
        /\ pending = {}
        /\ unresolved' = [c \in Comments |->
                IF (\E i \in 1..Len(list) : list[i] = c) /\ CommentId(c) = CommentId(k) /\ IsDraft(c)
                THEN value ELSE unresolved[c]]
        /\ pending' = {[kind |-> "updateComment", record |-> r, list |-> list]}
        /\ lastFrom' = NoFrom
        /\ UNCHANGED <<lastThreadId, threadMap, records, held, handles, managers, otherVars>>

\* updateComment resumes: setComments(<the list read before the await>)
UpdateCommentResume(p) ==
    /\ p \in pending
    /\ p.kind = "updateComment"
    /\ SetCommentsOn(p.record, p.list, FALSE)
    /\ pending' = pending \ {p}
    /\ lastFrom' = NoFrom
    /\ UNCHANGED <<lastThreadId, threadMap, records, held, unresolved, otherVars>>

\* record.removeComment(comment)
RemoveComment(r, k) ==
    /\ Usable(r)
    /\ SetCommentsOn(r, FilterOutId(handles[records[r].thread].comments, CommentId(k)), FALSE)
    /\ lastFrom' = NoFrom
    /\ UNCHANGED <<lastThreadId, threadMap, records, held, unresolved, pending, otherVars>>

\* record.refreshComments()
RefreshComments(r) ==
    /\ Usable(r)
    /\ SetCommentsOn(r, handles[records[r].thread].comments, FALSE)
    /\ lastFrom' = NoFrom
    /\ UNCHANGED <<lastThreadId, threadMap, records, held, unresolved, pending, otherVars>>

\* GerritDraftComment.setResolved(newValue), as far as the thread reads it back
DraftSetResolved(unres, k, newValue) ==
    [unres EXCEPT ![k] = ~newValue]

\* record.setResolved(newValue) up to its await: nothing happens unless the last
\* comment is a draft; one call is in flight at a time
SetResolvedStart(r, newValue) ==
    LET list == handles[records[r].thread].comments
    IN  /\ Usable(r)
        /\ pending = {}
        /\ IF list # <<>> /\ IsDraft(LastComment(list))
           THEN /\ unresolved' = DraftSetResolved(unresolved, LastComment(list), newValue)
                /\ pending' = {[kind |-> "setResolved", record |-> r, list |-> <<>>]}
           ELSE UNCHANGED <<unresolved, pending>>
        /\ lastFrom' = NoFrom
        /\ UNCHANGED <<lastThreadId, threadMap, records, held, handles, managers, otherVars>>

\* setResolved resumes: this.update(false)
SetResolvedResume(p) ==
    /\ p \in pending
    /\ p.kind = "setResolved"
    /\ handles' = [handles EXCEPT ![records[p.record].thread] =
            Update(@, records[p.record], FALSE, unresolved, managers)]
    /\ pending' = pending \ {p}
    /\ lastFrom' = NoFrom
    /\ UNCHANGED <<lastThreadId, threadMap, records, held, unresolved, managers, otherVars>>

\* record.collapse() and record.expand()
Collapse(r) ==
    /\ Usable(r)
    /\ handles' = [handles EXCEPT ![records[r].thread].collapsibleState = Collapsed]
    /\ lastFrom' = NoFrom
    /\ UNCHANGED <<lastThreadId, threadMap, records, held, unresolved, managers, pending, otherVars>>

Expand(r) ==
    /\ Usable(r)
    /\ handles' = [handles EXCEPT ![records[r].thread].collapsibleState = Expanded]
    /\ lastFrom' = NoFrom
    /\ UNCHANGED <<lastThreadId, threadMap, records, held, unresolved, managers, pending, otherVars>>

\* record.dispose()
Dispose(r) ==
    /\ r \in held
    /\ handles[records[r].thread].disposed < MaxDisposals
    /\ threadMap' = MapDelete(threadMap, records[r].threadID)
    /\ handles' = [handles EXCEPT ![records[r].thread] = DisposeHandle(@)]
    /\ lastFrom' = NoFrom
    /\ UNCHANGED <<lastThreadId, records, held, unresolved, managers, pending, otherVars>>

\* the registry gains a manager for the uri
OpenManager(m, uri) ==
    /\ managers[m].uri = "none"
    /\ managers' = [managers EXCEPT ![m] = [NoManager EXCEPT !.uri = uri]]
    /\ lastFrom' = NoFrom
    /\ UNCHANGED <<lastThreadId, threadMap, records, held, handles, unresolved, pending, otherVars>>

\* the registry drops a manager
CloseManager(m) ==
    /\ managers[m].uri # "none"
    /\ managers' = [managers EXCEPT ![m] = NoManager]
    /\ lastFrom' = NoFrom
    /\ UNCHANGED <<lastThreadId, threadMap, records, held, handles, unresolved, pending, otherVars>>

\* a manager counts one more thread at the line
RegisterLineThread(m, line) ==
    /\ managers[m].uri # "none"
    /\ managers[m].lineThreadCount[line] < MaxLineThreads
    /\ managers' = [managers EXCEPT ![m].lineThreadCount[line] = @ + 1]
    /\ lastFrom' = NoFrom
    /\ UNCHANGED <<lastThreadId, threadMap, records, held, handles, unresolved, pending, otherVars>>

(***************************************************************************)
(* Spec: every operation on the thread of one handle, in a document with   *)
(* or without a file meta, with one manager coming and going               *)
(***************************************************************************)
Init ==
    /\ ThreadInit({ [h \in Handles |-> IF h = "h1" THEN u ELSE GerritUri] : u \in Uris },
                  {[k \in Comments |-> k # "k1"]})
    /\ ConfigQuiet
    /\ ParseQuiet

Next ==
    \/ From("h1")
    \/ \E r \in RecordIds, list \in CommentLists(Comments), isInitial \in BOOLEAN :
          SetComments(r, list, isInitial)
    \/ \E r \in RecordIds, k \in Comments, state \in {<<>>, <<Collapsed>>, <<Expanded>>} :
          PushComment(r, k, state)
    \/ \E r \in RecordIds, k \in Comments, value \in BOOLEAN : UpdateCommentStart(r, k, value)
    \/ \E p \in pending : UpdateCommentResume(p)
    \/ \E r \in RecordIds, k \in Comments : RemoveComment(r, k)
    \/ \E r \in RecordIds : RefreshComments(r)
    \/ \E r \in RecordIds : Dispose(r)
    \/ \E uri \in Uris : OpenManager(1, uri)
    \/ CloseManager(1)

Spec == Init /\ [][Next]_vars

(***************************************************************************)
(* SpecIds: the threads of two handles are created, rewritten and disposed *)
(***************************************************************************)
InitIds ==
    /\ ThreadInit({ [h \in Handles |-> IF h = "h1" THEN GerritUri ELSE u] : u \in Uris },
                  {[k \in Comments |-> k # "k1"]})
    /\ ConfigQuiet
    /\ ParseQuiet

NextIds ==
    \/ \E h \in Handles : From(h)
    \/ \E r \in RecordIds, list \in CommentLists({"k1", "k2"}) : SetComments(r, list, FALSE)
    \/ \E r \in RecordIds : Dispose(r)
    \/ \E uri \in Uris : OpenManager(1, uri)
    \/ CloseManager(1)

SpecIds == InitIds /\ [][NextIds]_vars

(***************************************************************************)
(* SpecExpand: the threads of two handles are materialized while the       *)
(* managers of their documents count the threads of the line               *)
(***************************************************************************)
InitExpand ==
    /\ ThreadInit({ [h \in Handles |-> u] : u \in Uris }, {[k \in Comments |-> k = "k2"]})
    /\ ConfigQuiet
    /\ ParseQuiet

NextExpand ==
    \/ \E h \in Handles : From(h)
    \/ \E r \in RecordIds, k \in {"k1", "k3"} : SetComments(r, <<k>>, TRUE)
    \/ \E r \in RecordIds, k \in {"k1", "k3"}, state \in {<<>>, <<Collapsed>>, <<Expanded>>} :
          PushComment(r, k, state)
    \/ \E m \in ManagerIds : OpenManager(m, handles["h1"].uri)
    \/ \E m \in ManagerIds, line \in Lines : RegisterLineThread(m, line)

SpecExpand == InitExpand /\ [][NextExpand]_vars

(***************************************************************************)
(* SpecUpdate: the thread of one handle in a document a manager claims is  *)
(* rewritten, resolved, collapsed and expanded while an updateComment or a *)
(* setResolved is suspended                                                *)
(***************************************************************************)
InitUpdate ==
    /\ ThreadInit({[h \in Handles |-> GerritUri]}, {[k \in Comments |-> k # "k1"]})
    /\ ConfigQuiet
    /\ ParseQuiet

NextUpdate ==
    \/ From("h1")
    \/ \E r \in RecordIds, list \in CommentLists(Comments), isInitial \in BOOLEAN :
          SetComments(r, list, isInitial)
    \/ \E r \in RecordIds, k \in Comments, state \in {<<>>, <<Collapsed>>, <<Expanded>>} :
          PushComment(r, k, state)
    \/ \E r \in RecordIds, k \in Comments, value \in BOOLEAN : UpdateCommentStart(r, k, value)
    \/ \E p \in pending : UpdateCommentResume(p)
    \/ \E r \in RecordIds, k \in Comments : RemoveComment(r, k)
    \/ \E r \in RecordIds : RefreshComments(r)
    \/ \E r \in RecordIds, newValue \in BOOLEAN : SetResolvedStart(r, newValue)
    \/ \E p \in pending : SetResolvedResume(p)
    \/ \E r \in RecordIds : Collapse(r)
    \/ \E r \in RecordIds : Expand(r)
    \/ OpenManager(1, GerritUri)

SpecUpdate == InitUpdate /\ [][NextUpdate]_vars

(***************************************************************************)
(* Specifications of the .gitreview reader and of the parser               *)
(***************************************************************************)
InitConfig ==
    ConfigInit /\ ThreadQuiet /\ ParseQuiet

NextConfig ==
    \/ \E c \in Callers : CallCached(c)
    \/ \E c \in Callers : CallDirect(c)
    \/ \E c \in Callers : ReadRoot(c)
    \/ \E c \in Callers : Resume(c)
    \/ \E c \in Callers : Finish(c)
    \/ \E r \in Roots, file \in FileStates : ChangeFile(r, file)

SpecConfig == InitConfig /\ [][NextConfig]_vars

InitParse ==
    ParseInit /\ ThreadQuiet /\ ConfigQuiet

NextParse ==
    Parse

SpecParse == InitParse /\ [][NextParse]_vars

(***************************************************************************)
(* Properties of GerritCommentThread                                       *)
(***************************************************************************)

\* from(handle of record r) finds r in the table
Resolvable(r) ==
    LET contextValue == handles[records[r].thread].contextValue
    IN  /\ IsMapped(threadMap, contextValue)
        /\ threadMap[getThreadID(contextValue).id] = r

\* C1: the table holds no entry for a record whose handle has been disposed.
C1_NoEntryForDisposedHandle ==
    \A r \in RecordIds : InTable(r) => handles[records[r].thread].disposed = 0

\* the number an identifier string denotes
IdNumber(id) ==
    CHOOSE n \in 0..(10 ^ Len(id) - 1) : IdString(n) = id

\* C2: the counter never decreases and the identifiers of the records increase
\* strictly in creation order; dispose() on a record removes that record's
\* entry and no other: every other record of the table is still in the table
\* after it and is still the record from() finds on its handle.
C2_IncreasingIdsAndExactDisposal ==
    [][/\ lastThreadId' >= lastThreadId
       /\ \A i, j \in 1..Len(records') :
             i < j => IdNumber(records'[i].threadID) < IdNumber(records'[j].threadID)
       /\ \A r \in RecordIds :
             Dispose(r) =>
                /\ ~InTable(r)'
                /\ \A q \in RecordIds \ {r} :
                      InTable(q) => (InTable(q)' /\ Resolvable(q)')]_vars

\* the first record was disposed and the second, with the greater identifier,
\* is still found on its handle
C2_Witness ==
    /\ Len(records) = 2
    /\ ~InTable(1)
    /\ handles[records[1].thread].disposed > 0
    /\ InTable(2)
    /\ Resolvable(2)
    /\ records[1].threadID = <<"0">>
    /\ records[2].threadID = <<"1">>

\* C3: from() on a handle that has a record in the table returns that record
\* and changes neither the counter, the table, the records, the managers nor
\* the handle, however the record's updates have rewritten the contextValue;
\* from() on a handle without one, in a document a manager claims, creates
\* exactly one record, enters it in the table and registers it once with the
\* first manager.
C3_FromIsIdempotent ==
    [][\A h \in Handles :
          lastFrom'.thread = h =>
             LET existing == { r \in RecordIds : records[r].thread = h /\ InTable(r) }
                 ms == getFileManagersForUri(managers, handles[h].uri)
             IN  /\ existing # {} =>
                      /\ lastFrom'.result \in existing
                      /\ UNCHANGED <<lastThreadId, threadMap, records, managers, handles>>
                 /\ (existing = {} /\ ms # <<>>) =>
                      /\ Len(records') = Len(records) + 1
                      /\ lastFrom'.result = Len(records')
                      /\ records'[Len(records')].thread = h
                      /\ records'[Len(records')].threadID \in DOMAIN threadMap'
                      /\ threadMap'[records'[Len(records')].threadID] = Len(records')
                      /\ managers' = registerNewThread(managers, ms[1], Len(records'))]_vars

\* from() has returned the record of a handle whose contextValue holds the
\* flags an update wrote after the id
C3_Witness ==
    /\ lastFrom.thread \in Handles
    /\ lastFrom.result # 0
    /\ Includes(handles[lastFrom.thread].contextValue, ",")
    /\ handles[lastFrom.thread].comments # <<>>
    /\ managers[1].newThreads = <<lastFrom.result>>

\* C4: from() on a handle whose document no manager claims returns nothing.
C4_NothingWithoutManager ==
    lastFrom.thread \in Handles =>
        (getFileManagersForUri(managers, handles[lastFrom.thread].uri) = <<>>
            => lastFrom.result = 0)

\* the step is the initial update of record r: setComments(list, true) or a
\* pushComment onto an empty list
InitialUpdate(r) ==
    \/ \E list \in CommentLists(Comments) : SetComments(r, list, TRUE)
    \/ /\ handles[records[r].thread].comments = <<>>
       /\ \E k \in Comments, state \in {<<>>, <<Collapsed>>, <<Expanded>>} : PushComment(r, k, state)

\* C5: a thread whose last comment lies on a line where the managers of its
\* document count more than one thread is expanded by its initial update, also
\* when that comment is resolved.
C5_SharedLineExpands ==
    [][\A r \in RecordIds :
          LET h == records[r].thread
              list == handles'[h].comments
          IN  (/\ InitialUpdate(r)
               /\ list # <<>>
               /\ CommentLine(LastComment(list)) # 0
               /\ SumLineThreads(managers, getFileManagersForUri(managers, handles[h].uri),
                                 CommentLine(LastComment(list))) > 1)
              => handles'[h].collapsibleState = Expanded]_vars

\* the step is a call on record r that sets its comment list
ListOperation(r) ==
    \/ \E list \in CommentLists(Comments), isInitial \in BOOLEAN : SetComments(r, list, isInitial)
    \/ \E k \in Comments, state \in {<<>>, <<Collapsed>>, <<Expanded>>} : PushComment(r, k, state)
    \/ \E k \in Comments : RemoveComment(r, k)
    \/ RefreshComments(r)
    \/ \E p \in pending : p.record = r /\ UpdateCommentResume(p)

\* C6: a call that leaves the comment list empty disposes the handle exactly
\* once, and a call that leaves it non-empty does not dispose it.
C6_DisposedOnceWhenEmptied ==
    [][\A r \in RecordIds :
          LET h == records[r].thread
          IN  \/ handles'[h].disposed =
                    handles[h].disposed + (IF handles'[h].comments = <<>> THEN 1 ELSE 0)
              \/ ~ListOperation(r)]_vars

\* a thread that held comments was emptied and its handle disposed once, by
\* the call that emptied it (the record was never disposed itself)
C6_Witness ==
    \E r \in RecordIds :
        /\ InTable(r)
        /\ handles[records[r].thread].comments = <<>>
        /\ handles[records[r].thread].disposed = 1
        /\ managers[1].commentThreads["c1"] = r

\* the label, canReply and contextValue the list and the flags call for
LabelFor(list, unres) ==
    IF list # <<>> /\ unres[list[Len(list)]] THEN "Comment (unresolved)" ELSE "Comment"

CanReplyFor(list) ==
    ~(list # <<>> /\ IsDraft(list[Len(list)]))

ContextValueFor(threadID, list, unres) ==
    threadID \o <<"|",
                  IF list # <<>> /\ unres[list[Len(list)]] THEN "noResolved" ELSE "yesResolved",
                  ",",
                  IF list # <<>> /\ ~IsDraft(list[Len(list)])
                  THEN "nodLastCommentDaft" ELSE "yesLastCommentDraft">>

\* C11: when setComments, pushComment, removeComment, refreshComments or
\* updateComment returns, the handle's label, canReply and contextValue are the
\* ones its current list and the current flags of its last comment call for.
C11_DerivedFieldsAgree ==
    [][\A r \in RecordIds :
          LET h == handles'[records[r].thread]
          IN  \/ /\ h.label = LabelFor(h.comments, unresolved')
                 /\ h.canReply = CanReplyFor(h.comments)
                 /\ h.contextValue = ContextValueFor(records[r].threadID, h.comments, unresolved')
              \/ ~ListOperation(r)]_vars

\* a thread that ends with an unresolved draft is labelled unresolved, takes no
\* reply and carries both flags after its id
C11_Witness ==
    \E r \in RecordIds :
        LET h == handles[records[r].thread]
        IN  /\ Usable(r)
            /\ Len(h.comments) = 2
            /\ h.comments[2] = "k2"
            /\ unresolved["k2"]
            /\ h.label = "Comment (unresolved)"
            /\ ~h.canReply
            /\ h.contextValue = records[r].threadID \o <<"|", "noResolved", ",", "yesLastCommentDraft">>

\* the step is a call on record r that is no first materialization: it updates
\* with isInitial false and passes no collapse state (a setComments step is
\* the setComments of the list the handle holds after it)
LaterUpdate(r) ==
    \/ SetComments(r, handles'[records[r].thread].comments, FALSE)
    \/ /\ handles[records[r].thread].comments # <<>>
       /\ \E k \in Comments : PushComment(r, k, <<>>)
    \/ \E k \in Comments : RemoveComment(r, k)
    \/ RefreshComments(r)
    \/ \E p \in pending : p.record = r /\ UpdateCommentResume(p)
    \/ \E newValue \in BOOLEAN : SetResolvedStart(r, newValue)
    \/ \E p \in pending : p.record = r /\ SetResolvedResume(p)

\* the step is a first materialization of record r without a collapse state
FirstUpdate(r) ==
    \/ SetComments(r, handles'[records[r].thread].comments, TRUE)
    \/ /\ handles[records[r].thread].comments = <<>>
       /\ \E k \in Comments : PushComment(r, k, <<>>)

\* C12: removeComment, updateComment, refreshComments, setResolved, setComments
\* without isInitial and pushComment onto a non-empty list without a collapse
\* state leave the collapsibleState as it was, whatever happens to the resolved
\* status; setComments(list, true) and pushComment onto an empty list set it
\* (with no other thread on the line: Collapsed when resolved, else Expanded).
C12_CollapseStateOnlyInitially ==
    [][\A r \in RecordIds :
          LET t == records[r].thread
              list == handles'[t].comments
          IN  /\ \/ handles'[t].collapsibleState = handles[t].collapsibleState
                 \/ ~LaterUpdate(r)
              /\ \/ handles'[t].collapsibleState =
                        IF LabelFor(list, unresolved') = "Comment" THEN Collapsed ELSE Expanded
                 \/ \E m \in ManagerIds, line \in Lines : managers[m].lineThreadCount[line] > 1
                 \/ ~FirstUpdate(r)]_vars

\* a thread was materialized resolved and collapsed, and stays collapsed now
\* that its last comment is unresolved, with no call in flight
C12_Witness ==
    \E r \in RecordIds :
        LET h == handles[records[r].thread]
        IN  /\ Usable(r)
            /\ pending = {}
            /\ h.comments = <<"k1", "k2">>
            /\ unresolved["k2"]
            /\ h.label = "Comment (unresolved)"
            /\ h.collapsibleState = Collapsed

\* C13: the list updateComment commits on resuming is the list the thread
\* holds at that moment, so it keeps what pushComment, removeComment and
\* setComments did while the call was suspended; and a thread that was emptied
\* (and its handle disposed) while the call was suspended is not written again.
C13_UpdateCommitsCurrentList ==
    [][\A p \in pending :
          LET t == records[p.record].thread
          IN  UpdateCommentResume(p) =>
                 /\ handles'[t].comments = handles[t].comments
                 /\ (p.list # <<>> /\ handles[t].comments = <<>>) => handles'[t] = handles[t]]_vars

\* C15: dispose() on a record whose handle has already been disposed, by an
\* earlier dispose() or by the call that emptied its list, disposes the handle
\* once more and leaves the table as it was.
C15_RedisposalLeavesTable ==
    [][\A r \in RecordIds :
          LET t == records[r].thread
          IN  (Dispose(r) /\ handles[t].disposed > 0) =>
                 /\ handles'[t].disposed = handles[t].disposed + 1
                 /\ threadMap' = threadMap]_vars

\* the ids of the comments of a list, in order
IdsOf(list) ==
    [i \in 1..Len(list) |-> CommentId(list[i])]

\* the comments of the list whose id is not the id of k, in order
WithoutIdOf(list, k) ==
    LET Keep(c) == CommentId(c) # CommentId(k)
    IN  SelectSeq(list, Keep)

\* C16: pushComment appends the comment to the list; removeComment keeps, in
\* their order, exactly the comments whose id differs from the given one's;
\* updateComment runs the updater on no comment but those of the list with the
\* given id, and when nothing ran in between it commits a list with the same
\* sequence of ids.
C16_ListKeepsInsertionOrder ==
    [][\A r \in RecordIds :
          LET t == records[r].thread
              list == handles[t].comments
          IN  /\ \A k \in Comments :
                    \/ handles'[t].comments = Append(list, k)
                    \/ ~(\E state \in {<<>>, <<Collapsed>>, <<Expanded>>} : PushComment(r, k, state))
              /\ \A k \in Comments :
                    \/ handles'[t].comments = WithoutIdOf(list, k)
                    \/ ~RemoveComment(r, k)
              /\ \A k \in Comments :
                    \/ \A c \in Comments :
                          unresolved'[c] # unresolved[c] =>
                             (CommentId(c) = CommentId(k) /\ \E i \in 1..Len(list) : list[i] = c)
                    \/ ~(\E value \in BOOLEAN : UpdateCommentStart(r, k, value))
              /\ \A p \in pending :
                    (p.record = r /\ p.list = list /\ UpdateCommentResume(p)) =>
                       IdsOf(handles'[t].comments) = IdsOf(list)]_vars

\* a thread holds a draft pushed before a submitted comment, in that order, and
\* an updateComment on that list is suspended
C16_Witness ==
    \E r \in RecordIds, p \in pending :
        /\ Usable(r)
        /\ p.record = r
        /\ p.kind = "updateComment"
        /\ p.list = <<"k2", "k1">>
        /\ handles[records[r].thread].comments = <<"k2", "k1">>

\* C17: a from() that returns nothing leaves the counter, the table and the
\* handles (so the handle's contextValue) as they were.
C17_FailedFromChangesNothing ==
    [][(lastFrom'.thread \in Handles /\ lastFrom'.result = 0) =>
          UNCHANGED <<lastThreadId, threadMap, handles>>]_vars

\* C19: after pushComment(comment, state) the handle's collapsibleState is the
\* state passed, for Collapsed as for Expanded.
C19_PushSetsGivenState ==
    [][\A r \in RecordIds, k \in Comments, state \in {Collapsed, Expanded} :
          PushComment(r, k, <<state>>) =>
             handles'[records[r].thread].collapsibleState = state]_vars

(***************************************************************************)
(* Properties of the .gitreview reader                                     *)
(***************************************************************************)

\* C7: a call of getGitReviewFileCached that starts after the latest completed
\* call returned a record completes at once with that same record, reads no
\* file and leaves the cache as it is, whatever the files hold by then.
C7_SecondCallServedFromCache ==
    [][\A c \in Callers :
          (/\ calls[c].pc = "idle"
           /\ calls'[c].pc # "idle"
           /\ calls'[c].kind = "cached"
           /\ lastCached.found)
          => (/\ calls'[c].pc = "done"
              /\ calls'[c].val = lastCached
              /\ calls'[c].log = <<>>
              /\ ~calls'[c].threw
              /\ gitReviewFile' = gitReviewFile)]_vars

\* a call was answered from the cache with a record no root declares any more
C7_Witness ==
    \E c \in Callers :
        /\ calls[c].pc = "done"
        /\ calls[c].kind = "cached"
        /\ calls[c].log = <<>>
        /\ calls[c].val.found
        /\ \A r \in Roots : FileAt(fs[r]) # calls[c].val

\* the scan of call c has returned
Scanned(c) ==
    /\ calls[c].pc \in {"resolved", "done"}
    /\ (calls[c].kind = "direct" \/ calls[c].log # <<>>)

\* C8: getGitReviewFile reads the roots in their order, each at most once; it
\* passes over every root whose file is unreadable, empty or invalid, stops at
\* the first root with a valid file and returns its parse; it returns nothing
\* exactly when it has read every root and none was valid; it never throws.
C8_ScanReturnsFirstValid ==
    \A c \in Callers :
        LET log == calls[c].log
        IN  /\ ~calls[c].threw
            /\ \A i \in 1..Len(log) : log[i].root = i
            /\ calls[c].pc = "reading" =>
                  /\ Len(log) = calls[c].idx - 1
                  /\ \A i \in 1..Len(log) : ~log[i].file.found
            /\ Scanned(c) =>
                  /\ \A i \in 1..(Len(log) - 1) : ~log[i].file.found
                  /\ calls[c].val.found => (log # <<>> /\ calls[c].val = log[Len(log)].file)
                  /\ ~calls[c].val.found =>
                        (Len(log) = NumRoots /\ \A i \in 1..Len(log) : ~log[i].file.found)

\* a scan passed over a first root and returned the record of a later one
C8_Witness ==
    \E c \in Callers :
        /\ Scanned(c)
        /\ calls[c].val.found
        /\ Len(calls[c].log) > 1

\* C14: once the cache holds a record it keeps that record, and every
\* getGitReviewFileCached that completes from then on returns it, also a call
\* that had started scanning before the record was stored.
C14_CacheNeverOverwritten ==
    [][gitReviewFile.found =>
          /\ gitReviewFile' = gitReviewFile
          /\ \A c \in Callers :
                (calls[c].pc # "done" /\ calls'[c].pc = "done" /\ calls'[c].kind = "cached")
                   => calls'[c].val = gitReviewFile]_vars

\* C18: a getGitReviewFileCached that returns nothing leaves the cache empty;
\* a call made while the cache is empty scans the roots from the first one; and
\* when its scan finds a valid file the call stores and returns that record.
C18_MissIsNotCached ==
    [][\A c \in Callers :
          /\ (calls[c].pc = "resolved" /\ calls'[c].pc = "done" /\ ~calls[c].val.found) =>
                (~gitReviewFile'.found /\ ~calls'[c].val.found)
          /\ (calls[c].pc = "idle" /\ calls'[c].kind = "cached" /\ ~gitReviewFile.found) =>
                (calls'[c].pc = "reading" /\ calls'[c].idx = 1 /\ calls'[c].log = <<>>)
          /\ (calls[c].pc = "resolved" /\ calls'[c].pc = "done" /\ calls[c].val.found) =>
                /\ gitReviewFile' = calls[c].val
                /\ calls'[c].val = calls[c].log[Len(calls[c].log)].file]_vars

\* one call has scanned every root and returned nothing, and another has
\* scanned since, found a valid file, returned its record and left it cached
C18_Witness ==
    \E c, d \in Callers :
        /\ calls[c].pc = "done" /\ calls[c].kind = "cached"
        /\ Len(calls[c].log) = NumRoots /\ ~calls[c].val.found
        /\ calls[d].pc = "done" /\ calls[d].kind = "cached"
        /\ calls[d].log # <<>> /\ calls[d].val.found
        /\ gitReviewFile = calls[d].val

(***************************************************************************)
(* Properties of parseGerritFile                                           *)
(***************************************************************************)

ContentLines == Split(fileContent, "\n")

\* the lines that hold an assignment separator
AssignmentLines == { i \in 1..Len(ContentLines) : Includes(ContentLines[i], "=") }

\* the last line that assigns to key, as the code reads keys (0 when none)
LastAssignment(key) ==
    LET at == { i \in AssignmentLines : LineKey(ContentLines[i]) = key }
    IN  IF at = {} THEN 0 ELSE CHOOSE i \in at : \A j \in at : j <= i

HoldsValue(key) ==
    /\ LastAssignment(key) # 0
    /\ Trim(LineValue(ContentLines[LastAssignment(key)])) # <<>>

\* C9: parseGerritFile returns a record exactly when the content holds the
\* [gerrit] marker and host and project both end up with a non-empty value;
\* the record's keys are exactly the keys the lines assign, each with the
\* value of its last assignment, so no default is filled in.
C9_ParseResult ==
    parsed.called =>
        /\ parsed.result.found <=>
              (HasHeader(fileContent) /\ HoldsValue(<<"host">>) /\ HoldsValue(<<"project">>))
        /\ parsed.result.found =>
              /\ DOMAIN parsed.result.fields = { LineKey(ContentLines[i]) : i \in AssignmentLines }
              /\ \A key \in DOMAIN parsed.result.fields :
                    parsed.result.fields[key] = Trim(LineValue(ContentLines[LastAssignment(key)]))

\* a record was returned for a file that assigns host twice and no port
C9_Witness ==
    /\ parsed.called
    /\ parsed.result.found
    /\ <<"port">> \notin DOMAIN parsed.result.fields
    /\ \E i, j \in AssignmentLines :
          /\ i < j
          /\ LineKey(ContentLines[i]) = <<"host">>
          /\ LineKey(ContentLines[j]) = <<"host">>
          /\ LineValue(ContentLines[i]) # LineValue(ContentLines[j])

\* the text of a line before and after its first '='
BeforeFirst(line) == SubSeq(line, 1, IndexOf(line, "=") - 1)
AfterFirst(line) == SubSeq(line, IndexOf(line, "=") + 1, Len(line))

\* the last line whose trimmed text before the first '=' is key
LastAssignmentTrimmed(key) ==
    LET at == { i \in AssignmentLines : Trim(BeforeFirst(ContentLines[i])) = key }
    IN  CHOOSE i \in at : \A j \in at : j <= i

\* C10: every assignment line is split at its first '=' only: the record holds,
\* under the trimmed text before the first '=', the trimmed whole remainder of
\* the (last such) line.
C10_SplitAtFirstSeparator ==
    (parsed.called /\ HasHeader(fileContent)) =>
        \A i \in AssignmentLines :
            LET key == Trim(BeforeFirst(ContentLines[i]))
            IN  /\ key \in DOMAIN parsed.file
                /\ parsed.file[key] = Trim(AfterFirst(ContentLines[LastAssignmentTrimmed(key)]))

====
